---- MODULE Spec2Model ----
(***************************************************************************)
(* Model of the XML-to-XPath list generator (src/console-app.js and        *)
(* src/parser.js): generateXpathList and its recursive helper traverse.    *)
(*                                                                         *)
(* Strings are modelled as sequences of one-character strings, so that     *)
(* concatenation, trimming and joining are computed character by           *)
(* character as the JavaScript does.                                       *)
(***************************************************************************)
EXTENDS Integers, Sequences, FiniteSets, TLC

VARIABLES
    doc,       \* the parsed document handed to generateXpathList
    options,   \* the options object (the indexing policy)
    app,       \* which file's traverse runs: "console-app" or "parser"
    pc,        \* "ready" before the call, "done" after it returned
    results,   \* the results array of generateXpathList when it returned
    output,    \* the string generateXpathList returned
    log,       \* history of the call: visits, forEach iterations, pushes
    thrown,    \* the error generateXpathList threw, NoError when it returned
    written,   \* the output directory and the file at outputPath
    earlier,   \* the calls made before this one, and what they returned
    answers,   \* main of console-app.js: what the user answered the prompts
    reverser,  \* the reverse transform: its input and what it built
    filter,    \* filter-app.js: its two inputs and what it computed
    mapper     \* image-mapperv2.js: its input and what it extracted

vars == <<doc, options, app, pc, results, output, log, thrown, written,
          earlier, answers, reverser, filter, mapper>>

\* The variables of the programs other than the path generator, and the
\* value they have while such a program is not run.
toolVars == <<answers, reverser, filter, mapper>>

Unused == [used |-> FALSE]

ToolsUnused ==
    /\ answers = Unused
    /\ reverser = Unused
    /\ filter = Unused
    /\ mapper = Unused

----------------------------------------------------------------------------
(* Bounds of the model. *)

MaxNodes == 4

----------------------------------------------------------------------------
(* JavaScript strings and arrays. *)

\* String.prototype.trim: white space is removed from both ends only.
WhiteSpace == {" ", "\t", "\n", "\r"}

RECURSIVE TrimStart(_)
TrimStart(s) ==
    IF s # <<>> /\ Head(s) \in WhiteSpace THEN TrimStart(Tail(s)) ELSE s

RECURSIVE TrimEnd(_)
TrimEnd(s) ==
    IF s # <<>> /\ s[Len(s)] \in WhiteSpace
    THEN TrimEnd(SubSeq(s, 1, Len(s) - 1))
    ELSE s

\* Faulty variant, for fault injection: trim() left out.
Trim_Omitted(s) == s

\* String.prototype.trim()
Trim(s) == TrimEnd(TrimStart(s))

\* Number-to-string conversion of a template literal `${index}`.
Digits == <<"0", "1", "2", "3", "4", "5", "6", "7", "8", "9">>

RECURSIVE IntToStr(_)
IntToStr(n) ==
    IF n < 10 THEN <<Digits[n + 1]>>
    ELSE IntToStr(n \div 10) \o <<Digits[(n % 10) + 1]>>

\* Array.prototype.join with separator sep.
RECURSIVE Join(_, _)
Join(lines, sep) ==
    IF lines = <<>> THEN <<>>
    ELSE IF Len(lines) = 1 THEN lines[1]
    ELSE lines[1] \o sep \o Join(Tail(lines), sep)

\* An option of the options object: an array, or undefined when the object
\* does not carry it.
Absent == [present |-> FALSE, items |-> <<>>]

List(items) == [present |-> TRUE, items |-> items]

\* `options.list && options.list.includes(x)`
Includes(list, x) ==
    /\ list.present
    /\ \E k \in 1..Len(list.items) : list.items[k] = x

----------------------------------------------------------------------------
(* The parsed document.  Elements are numbered 1..n in document order,     *)
(* element 1 is documentElement; n = 0 is a document with no root.         *)
(* tagName[e] is a string, attrs[e] maps the names of the attributes e     *)
(* carries to their values, text[e] is the character data directly under   *)
(* e, parent[e] is the parent element (0 for the root).                    *)

RECURSIVE SortedSeq(_)
SortedSeq(S) ==
    IF S = {} THEN <<>>
    ELSE LET m == CHOOSE x \in S : \A y \in S : x <= y
         IN  <<m>> \o SortedSeq(S \ {m})

\* Faulty variant, for fault injection: every child listed twice.
ChildElements_Doubled(d, node) ==
    LET s == SortedSeq({c \in 1..d.n : d.parent[c] = node})
    IN  s \o s

\* Faulty variant, for fault injection: the children in reverse order.
ChildElements_Reversed(d, node) ==
    LET s == SortedSeq({c \in 1..d.n : d.parent[c] = node})
    IN  [i \in 1..Len(s) |-> s[Len(s) + 1 - i]]

\* Array.from(node.childNodes).filter(n => n.nodeType === 1)
ChildElements(d, node) ==
    SortedSeq({c \in 1..d.n : d.parent[c] = node})

\* node.textContent: the character data of the node and of its descendants.
RECURSIVE TextOfAll(_, _)
TextContent(d, node) == d.text[node] \o TextOfAll(d, ChildElements(d, node))
TextOfAll(d, nodes) ==
    IF nodes = <<>> THEN <<>>
    ELSE TextContent(d, Head(nodes)) \o TextOfAll(d, Tail(nodes))

hasAttribute(d, node, attrName) == attrName \in DOMAIN d.attrs[node]

getAttribute(d, node, attrName) == d.attrs[node][attrName]

----------------------------------------------------------------------------
(* traverse: the body of the childElements.forEach callback.               *)

\* `[@${attrName}="${child.getAttribute(attrName)}"]`
AttrFragment(attrName, value) ==
    <<"[", "@">> \o attrName \o <<"=", "\"">> \o value \o <<"\"", "]">>

\* options.attributesToIncludeInPath.forEach(...), from position k on.
RECURSIVE PredicateFrom(_, _, _, _)
PredicateFrom(d, child, attrList, k) ==
    IF k > Len(attrList) THEN <<>>
    ELSE (IF hasAttribute(d, child, attrList[k])
          THEN AttrFragment(attrList[k], getAttribute(d, child, attrList[k]))
          ELSE <<>>)
         \o PredicateFrom(d, child, attrList, k + 1)

\* Faulty variant, for fault injection: the fragments in the order the
\* element declares its attributes (i before t) instead of list order.
Predicate_DeclarationOrder(d, child, opts) ==
    IF opts.attributesToIncludeInPath.present
    THEN LET items == opts.attributesToIncludeInPath.items
             listed == {items[j] : j \in 1..Len(items)}
             declared == SelectSeq(<< <<"i">>, <<"t">> >>,
                                   LAMBDA a : a \in listed)
         IN  PredicateFrom(d, child, declared, 1)
    ELSE <<>>

\* let predicate = ''; if (options.attributesToIncludeInPath) { ... }
Predicate(d, child, opts) ==
    IF opts.attributesToIncludeInPath.present
    THEN PredicateFrom(d, child, opts.attributesToIncludeInPath.items, 1)
    ELSE <<>>

\* const nodeKey = tagName + predicate
NodeKey(d, child, opts) == d.tagName[child] \o Predicate(d, child, opts)

\* Faulty variant, for fault injection: one counter per parent, shared by
\* all grouping keys.
Increment_SharedCounter(siblingCounters, nodeKey) ==
    LET highest == IF DOMAIN siblingCounters = {} THEN 0
                   ELSE CHOOSE m \in {siblingCounters[k] :
                                          k \in DOMAIN siblingCounters} :
                            \A k \in DOMAIN siblingCounters :
                                siblingCounters[k] <= m
    IN  [k \in DOMAIN siblingCounters \cup {nodeKey} |->
            IF k = nodeKey THEN highest + 1 ELSE siblingCounters[k]]

\* Faulty variant, for fault injection: one counters object for the whole
\* program, holding what the last iteration of the call before left in it.
EmptyCounters_Kept ==
    LET ks == {k \in 1..Len(log) : log[k].op = "child"}
    IN  IF ks = {} THEN [k \in {} |-> 0]
        ELSE log[CHOOSE m \in ks : \A k \in ks : k <= m].siblingCounters

\* siblingCounters = {} and (siblingCounters[nodeKey] || 0) + 1.  The keys
\* are grouping keys of elements; none of them is the name of a member of
\* Object.prototype, so a key not yet counted reads as undefined.
EmptyCounters == [k \in {} |-> 0]

CounterOf(siblingCounters, nodeKey) ==
    IF nodeKey \in DOMAIN siblingCounters THEN siblingCounters[nodeKey] ELSE 0

Increment(siblingCounters, nodeKey) ==
    [k \in DOMAIN siblingCounters \cup {nodeKey} |->
        IF k = nodeKey THEN CounterOf(siblingCounters, nodeKey) + 1
        ELSE siblingCounters[k]]

\* Faulty variants of the first-occurrence rule, for fault injection.
\* The legacy rule applied last: it overrides the exceptions list.
ShouldShowIndexConsole_LegacyLast(opts, tagName) ==
    LET forceForAll ==
            opts.forceIndexOneFor.present
            /\ Len(opts.forceIndexOneFor.items) = 0
        forceForSpecific == Includes(opts.forceIndexOneFor, tagName)
        afterForce == forceForAll \/ forceForSpecific
        afterExceptions ==
            IF Includes(opts.exceptionsToIndexOneForcing, tagName)
            THEN FALSE ELSE afterForce
    IN  IF Includes(opts.exceptionsForIgnoreIndexOne, tagName)
        THEN TRUE ELSE afterExceptions

\* The empty forceIndexOneFor list read as "force for no tag".
ShouldShowIndexConsole_EmptyForcesNone(opts, tagName) ==
    LET afterLegacy == Includes(opts.exceptionsForIgnoreIndexOne, tagName)
        afterForce ==
            IF Includes(opts.forceIndexOneFor, tagName)
            THEN TRUE ELSE afterLegacy
    IN  IF Includes(opts.exceptionsToIndexOneForcing, tagName)
        THEN FALSE ELSE afterForce

\* The force rule applied last: it overrides the exceptions list.
ShouldShowIndexConsole_ForceLast(opts, tagName) ==
    LET afterLegacy == Includes(opts.exceptionsForIgnoreIndexOne, tagName)
        afterExceptions ==
            IF Includes(opts.exceptionsToIndexOneForcing, tagName)
            THEN FALSE ELSE afterLegacy
    IN  IF opts.forceIndexOneFor.present
           /\ (Len(opts.forceIndexOneFor.items) = 0
               \/ Includes(opts.forceIndexOneFor, tagName))
        THEN TRUE ELSE afterExceptions

\* No legacy rule at all.
ShouldShowIndexConsole_NoLegacy(opts, tagName) ==
    LET afterForce ==
            opts.forceIndexOneFor.present
            /\ (Len(opts.forceIndexOneFor.items) = 0
                \/ Includes(opts.forceIndexOneFor, tagName))
    IN  IF Includes(opts.exceptionsToIndexOneForcing, tagName)
        THEN FALSE ELSE afterForce

\* shouldShowIndex of console-app.js for index === 1: the legacy rule, then
\* the force rule, then the exceptions list, each overriding the earlier.
ShouldShowIndexConsole(opts, tagName) ==
    LET afterLegacy ==
            IF Includes(opts.exceptionsForIgnoreIndexOne, tagName)
            THEN TRUE ELSE FALSE
        forceForAll ==
            opts.forceIndexOneFor.present
            /\ Len(opts.forceIndexOneFor.items) = 0
        forceForSpecific == Includes(opts.forceIndexOneFor, tagName)
        afterForce ==
            IF opts.forceIndexOneFor.present /\ (forceForAll \/ forceForSpecific)
            THEN TRUE ELSE afterLegacy
    IN  IF Includes(opts.exceptionsToIndexOneForcing, tagName)
        THEN FALSE ELSE afterForce

\* Faulty variant, for fault injection: the empty forceIndexOneFor list
\* read as "force for no tag".
ShouldShowIndexParser_EmptyForcesNone(opts, tagName) ==
    IF Includes(opts.exceptionsToIndexOneForcing, tagName)
    THEN FALSE ELSE Includes(opts.forceIndexOneFor, tagName)

\* shouldShowIndex of parser.js for index === 1: no legacy rule.
ShouldShowIndexParser(opts, tagName) ==
    LET forceForAll ==
            opts.forceIndexOneFor.present
            /\ Len(opts.forceIndexOneFor.items) = 0
        forceForSpecific == Includes(opts.forceIndexOneFor, tagName)
        afterForce ==
            IF forceForAll \/ forceForSpecific THEN TRUE ELSE FALSE
    IN  IF Includes(opts.exceptionsToIndexOneForcing, tagName)
        THEN FALSE ELSE afterForce

ShouldShowIndex(appv, opts, tagName) ==
    IF appv = "console-app" THEN ShouldShowIndexConsole(opts, tagName)
    ELSE ShouldShowIndexParser(opts, tagName)

\* Faulty variants of the index fragment, for fault injection.
\* The exceptions list suppressing the index at every count.
IndexString_ExceptionsAtAnyCount(appv, opts, tagName, index) ==
    IF Includes(opts.exceptionsToIndexOneForcing, tagName) THEN <<>>
    ELSE IF index = 1 /\ ~ShouldShowIndex(appv, opts, tagName) THEN <<>>
    ELSE <<"[">> \o IntToStr(index) \o <<"]">>

\* The index rendered at every count.
IndexString_Always(appv, opts, tagName, index) ==
    <<"[">> \o IntToStr(index) \o <<"]">>

\* indexString: `[${index}]` or the empty string.
IndexString(appv, opts, tagName, index) ==
    IF index = 1
    THEN IF ShouldShowIndex(appv, opts, tagName)
         THEN <<"[">> \o IntToStr(index) \o <<"]">> ELSE <<>>
    ELSE <<"[">> \o IntToStr(index) \o <<"]">>

\* const pathSegment = tagName + predicate + indexString
PathSegment(tagName, predicate, indexString) ==
    tagName \o predicate \o indexString

\* const newPath = currentPath + '/' + pathSegment
NewPath(currentPath, pathSegment) == currentPath \o <<"/">> \o pathSegment

----------------------------------------------------------------------------
(* traverse and generateXpathList.  st carries the results array and the   *)
(* history of the call.                                                    *)

\* Faulty variant, for fault injection: the skip check left out.
IsIgnored_Never(opts, tagName) == FALSE

\* options.ignoreLeafNodes && options.ignoreLeafNodes.includes(node.tagName)
IsIgnored(opts, tagName) == Includes(opts.ignoreLeafNodes, tagName)

\* `${leafValue} : ${currentPath}`
ResultLine(leafValue, currentPath) ==
    leafValue \o <<" ", ":", " ">> \o currentPath

RECURSIVE traverse(_, _, _, _, _, _)
RECURSIVE forEachChild(_, _, _, _, _, _, _, _, _)

traverse(appv, d, node, currentPath, st, opts) ==
    LET entered == [st EXCEPT !.log =
                        Append(@, [op |-> "visit", node |-> node])]
        childElements == ChildElements(d, node)
        leafValue == Trim(TextContent(d, node))
    IN  IF IsIgnored(opts, d.tagName[node]) THEN entered
        ELSE IF Len(childElements) = 0 /\ leafValue # <<>>
        THEN [results |-> Append(entered.results,
                                 ResultLine(leafValue, currentPath)),
              log |-> Append(entered.log,
                             [op |-> "push", node |-> node,
                              leafValue |-> leafValue,
                              currentPath |-> currentPath])]
        ELSE forEachChild(appv, d, node, childElements, 1, EmptyCounters,
                          currentPath, entered, opts)

forEachChild(appv, d, node, childElements, k, siblingCounters, currentPath, st, opts) ==
    IF k > Len(childElements) THEN st
    ELSE
    LET child == childElements[k]
        tagName == d.tagName[child]
        predicate == Predicate(d, child, opts)
        nodeKey == tagName \o predicate
        counted == Increment(siblingCounters, nodeKey)
        index == counted[nodeKey]
        indexString == IndexString(appv, opts, tagName, index)
        pathSegment == PathSegment(tagName, predicate, indexString)
        newPath == NewPath(currentPath, pathSegment)
        iterated == [st EXCEPT !.log =
                        Append(@, [op |-> "child", parent |-> node,
                                   node |-> child, nodeKey |-> nodeKey,
                                   index |-> index,
                                   indexString |-> indexString,
                                   pathSegment |-> pathSegment,
                                   newPath |-> newPath,
                                   siblingCounters |-> counted])]
    IN  forEachChild(appv, d, node, childElements, k + 1, counted, currentPath,
                     traverse(appv, d, child, newPath, iterated, opts), opts)

\* Faulty variants of the root path, for fault injection.
\* The root given its predicate, like any child.
RootPath_Predicated(d) ==
    <<"/">> \o d.tagName[1]
    \o PredicateFrom(d, 1, << <<"t">>, <<"i">> >>, 1)

\* The root given the index [1], like a forced first child.
RootPath_Indexed(d) == <<"/">> \o d.tagName[1] \o <<"[", "1", "]">>

\* const rootPath = '/' + doc.documentElement.tagName
RootPath(d) == <<"/">> \o d.tagName[1]

\* Faulty variant, for fault injection: no element is ever found.
getElementsByTagName_None(d, name) == <<>>

\* doc.getElementsByTagName(name)
getElementsByTagName(d, name) ==
    SortedSeq({e \in 1..d.n : d.tagName[e] = name})

ParserErrorTag == <<"p", "a", "r", "s", "e", "r", "e", "r", "r", "o", "r">>

\* Faulty variant, for fault injection: the results array of the call
\* before is used again.
NewResults_Kept == results

\* const results = []
NewResults == <<>>

\* An error thrown: its kind, and for an 'XML Parsing Error: ...' the
\* element whose serialization the message ends with.
NoError == [name |-> "", errorNode |-> 0]

Threw(name, errorNode) ==
    [thrown |-> [name |-> name, errorNode |-> errorNode],
     results |-> <<>>, output |-> <<>>, log |-> <<>>]

\* Faulty variant, for fault injection: the test of documentElement left
\* out.
HasDocumentElement_Assumed(d) == TRUE

\* if (doc.documentElement)
HasDocumentElement(d) == d.n > 0

\* The call returns results.join('\n') or throws.  Reading tagName of a
\* documentElement that is null is a TypeError.
generateXpathList(appv, d, opts) ==
    LET errorNode == getElementsByTagName(d, ParserErrorTag)
        start == [results |-> NewResults, log |-> <<>>]
        done == IF HasDocumentElement(d)
                THEN traverse(appv, d, 1, RootPath(d), start, opts)
                ELSE start
    IN  IF Len(errorNode) > 0
        THEN Threw("XML Parsing Error", errorNode[1])
        ELSE IF HasDocumentElement(d) /\ d.n = 0
        THEN Threw("TypeError", 0)
        ELSE [thrown |-> NoError,
              results |-> done.results,
              output |-> Join(done.results, <<"\n">>),
              log |-> done.log]

----------------------------------------------------------------------------
(* The documents and the options the call is checked on.                   *)

TagR == <<"R">>     \* a tag no list of the options names
TagA == <<"A">>     \* the tag the indexing lists may name
TagS == <<"S">>     \* the tag ignoreLeafNodes may name

AttrT == <<"t">>    \* the attributes attributesToIncludeInPath may name
AttrI == <<"i">>

NoAttrs == [a \in {} |-> <<>>]

\* What one element below the root may be: its tag, its attributes, its own
\* text.  An element with no child elements is a leaf when its text is not
\* blank; the second kind is inert when it has no child elements.
ElementKinds ==
    {[tagName |-> TagA, attrs |-> NoAttrs, text |-> <<" ", "X">>],
     [tagName |-> TagA, attrs |-> (AttrI :> <<"1">> @@ AttrT :> <<"t">>),
      text |-> <<" ">>],
     [tagName |-> TagS, attrs |-> NoAttrs, text |-> <<"X", "\n", "Y">>]}

\* What the root element may be.
RootKinds ==
    {[tagName |-> TagR, attrs |-> (AttrI :> <<"1">>), text |-> <<"X">>],
     [tagName |-> TagA, attrs |-> (AttrI :> <<"1">>), text |-> <<"X", " ">>],
     [tagName |-> TagS, attrs |-> NoAttrs, text |-> <<"X">>]}

\* parent[e] is an ancestor-or-self of e - 1: elements are in document order.
RECURSIVE AncestorsOrSelf(_, _)
AncestorsOrSelf(parent, e) ==
    IF e = 0 THEN {} ELSE {e} \cup AncestorsOrSelf(parent, parent[e])

ParentMaps(n) ==
    {p \in [1..n -> 0..(n - 1)] :
        /\ p[1] = 0
        /\ \A e \in 2..n : p[e] >= 1 /\ p[e] < e
        /\ \A e \in 2..n : p[e] \in AncestorsOrSelf(p, e - 1)}

DocsOfSize(n) ==
    {[n |-> n, parent |-> p,
      tagName |-> [e \in 1..n |-> IF e = 1 THEN r.tagName ELSE k[e].tagName],
      attrs |-> [e \in 1..n |-> IF e = 1 THEN r.attrs ELSE k[e].attrs],
      text |-> [e \in 1..n |-> IF e = 1 THEN r.text ELSE k[e].text]] :
        p \in ParentMaps(n), r \in RootKinds, k \in [2..n -> ElementKinds]}

Docs == UNION {DocsOfSize(n) : n \in 1..MaxNodes}

\* The options main of console-app.js builds (lines 169-179): every list is
\* present.  forceIndexOneFor is also taken absent, as generateXpathList
\* accepts it.
ConsolePolicies ==
    [exceptionsForIgnoreIndexOne : {List(<<>>), List(<<TagA>>)},
     forceIndexOneFor : {Absent, List(<<>>), List(<<TagA>>)},
     exceptionsToIndexOneForcing : {List(<<>>), List(<<TagA>>)},
     attributesToIncludeInPath : {List(<<>>), List(<<AttrT, AttrI>>)},
     ignoreLeafNodes : {List(<<>>), List(<<TagS>>)}]

\* The options main of parser.js builds (lines 88-116): no legacy list.
ParserPolicies ==
    [exceptionsForIgnoreIndexOne : {Absent},
     forceIndexOneFor : {Absent, List(<<>>), List(<<TagA>>)},
     exceptionsToIndexOneForcing : {List(<<>>), List(<<TagA>>)},
     attributesToIncludeInPath : {List(<<AttrT, AttrI>>)},
     ignoreLeafNodes : {List(<<>>), List(<<TagS>>)}]

Calls ==
    {[app |-> "console-app", options |-> o] : o \in ConsolePolicies}
    \cup {[app |-> "parser", options |-> o] : o \in ParserPolicies}

----------------------------------------------------------------------------
(* The state machine: one call of generateXpathList.                       *)

\* The output side of the file system: whether the directory of outputPath
\* exists, whether the file does, and the content of the file.
NoFile == [dir |-> FALSE, exists |-> FALSE, content |-> <<>>]

File(content) == [dir |-> TRUE, exists |-> TRUE, content |-> content]

Init ==
    /\ doc \in Docs
    /\ \E c \in Calls : app = c.app /\ options = c.options
    /\ pc = "ready"
    /\ results = <<>>
    /\ output = <<>>
    /\ log = <<>>
    /\ thrown = NoError
    /\ written = NoFile
    /\ earlier = <<>>
    /\ ToolsUnused

\* One call of generateXpathList(xmlString, options): it returns ("done") or
\* throws ("threw").
GenerateXpathList ==
    /\ pc = "ready"
    /\ \E r \in {generateXpathList(app, doc, options)} :
           /\ results' = r.results
           /\ output' = r.output
           /\ log' = r.log
           /\ thrown' = r.thrown
           /\ pc' = IF r.thrown = NoError THEN "done" ELSE "threw"
    /\ UNCHANGED <<doc, options, app, written, earlier>>
    /\ UNCHANGED toolVars

Next == GenerateXpathList

Spec == Init /\ [][Next]_vars

----------------------------------------------------------------------------
(* Vocabulary of the properties, read off the document and the options     *)
(* rather than off the traversal.                                          *)

Done == pc = "done"

\* The forEach iterations and the results.push calls of the call.
ChildSteps == {k \in 1..Len(log) : log[k].op = "child"}
Pushes == {k \in 1..Len(log) : log[k].op = "push"}

\* The tag names a list of the options names (none when it is absent).
Members(list) ==
    IF list.present THEN {list.items[j] : j \in 1..Len(list.items)} ELSE {}

\* The occurrence count of element c: how many siblings up to and including
\* c, in document order, have c's grouping key.
OccurrenceCount(d, opts, c) ==
    Cardinality({s \in 1..c : /\ d.parent[s] = d.parent[c]
                              /\ NodeKey(d, s, opts) = NodeKey(d, c, opts)})

Bracketed(n) == <<"[">> \o IntToStr(n) \o <<"]">>

IsPrefix(p, s) == Len(p) <= Len(s) /\ SubSeq(s, 1, Len(p)) = p

\* s occurs in t as a run of consecutive characters.
Contains(t, s) ==
    \E j \in 0..(Len(t) - Len(s)) : SubSeq(t, j + 1, j + Len(s)) = s

\* Iteration k handles an element on the path of the leaf pushed at p.
OnPathOf(k, p) ==
    log[k].node \in AncestorsOrSelf(doc.parent, log[p].node)

----------------------------------------------------------------------------
(* C1 - C5: the indexing policy.                                           *)

\* The closed form of the rule for a first occurrence.
IndexOneRule(opts, tagName) ==
    /\ tagName \notin Members(opts.exceptionsToIndexOneForcing)
    /\ \/ tagName \in Members(opts.exceptionsForIgnoreIndexOne)
       \/ opts.forceIndexOneFor.present /\ opts.forceIndexOneFor.items = <<>>
       \/ tagName \in Members(opts.forceIndexOneFor)

C3_ForceAll ==
    (/\ Done
     /\ options.forceIndexOneFor = List(<<>>)
     /\ Members(options.exceptionsToIndexOneForcing) = {}) =>
        \A k \in ChildSteps :
            log[k].pathSegment =
                NodeKey(doc, log[k].node, options)
                \o Bracketed(OccurrenceCount(doc, options, log[k].node))

\* The spec's example: two leaves A, A under the root give /R/A[1], /R/A[2].
C3_Witness ==
    /\ Done
    /\ options.forceIndexOneFor = List(<<>>)
    /\ Members(options.exceptionsToIndexOneForcing) = {}
    /\ doc.n = 3 /\ doc.tagName[1] = TagR
    /\ results = << <<"X", " ", ":", " ", "/", "R", "/", "A", "[", "1", "]">>,
                    <<"X", " ", ":", " ", "/", "R", "/", "A", "[", "2", "]">> >>

\* C4: with forceIndexOneFor absent and the legacy and exceptions lists
\* empty, the first child of a grouping key has no index and the N-th has [N].
C4_DefaultSuppression ==
    (/\ Done
     /\ ~options.forceIndexOneFor.present
     /\ Members(options.exceptionsForIgnoreIndexOne) = {}
     /\ Members(options.exceptionsToIndexOneForcing) = {}) =>
        \A k \in ChildSteps :
            LET N == OccurrenceCount(doc, options, log[k].node)
            IN  log[k].pathSegment =
                    NodeKey(doc, log[k].node, options)
                    \o (IF N = 1 THEN <<>> ELSE Bracketed(N))

\* The spec's example: two leaves A, A under the root give /R/A, /R/A[2].
C4_Witness ==
    /\ Done
    /\ ~options.forceIndexOneFor.present
    /\ Members(options.exceptionsForIgnoreIndexOne) = {}
    /\ Members(options.exceptionsToIndexOneForcing) = {}
    /\ doc.n = 3 /\ doc.tagName[1] = TagR
    /\ results = << <<"X", " ", ":", " ", "/", "R", "/", "A">>,
                    <<"X", " ", ":", " ", "/", "R", "/", "A", "[", "2", "]">> >>

\* C5: a tag in exceptionsToIndexOneForcing never carries [1]: its first
\* occurrence has no index, its N-th (N >= 2) has [N], and no emitted path
\* contains a segment of that tag followed by [1].
C5_ExceptionNeverIndexOne ==
    Done =>
        \A k \in ChildSteps :
            LET c == log[k].node
                N == OccurrenceCount(doc, options, c)
            IN  doc.tagName[c] \in Members(options.exceptionsToIndexOneForcing)
                =>
                  /\ log[k].pathSegment =
                        NodeKey(doc, c, options)
                        \o (IF N = 1 THEN <<>> ELSE Bracketed(N))
                  /\ \A p \in Pushes :
                        ~Contains(log[p].currentPath,
                                  <<"/">> \o NodeKey(doc, c, options)
                                  \o Bracketed(1))

\* Three A leaves under the root with A excepted and force-all on give
\* /R/A, /R/A[2], /R/A[3].
C5_Witness ==
    /\ Done
    /\ options.forceIndexOneFor = List(<<>>)
    /\ TagA \in Members(options.exceptionsToIndexOneForcing)
    /\ doc.n = 4 /\ doc.tagName[1] = TagR
    /\ results = << <<"X", " ", ":", " ", "/", "R", "/", "A">>,
                    <<"X", " ", ":", " ", "/", "R", "/", "A", "[", "2", "]">>,
                    <<"X", " ", ":", " ", "/", "R", "/", "A", "[", "3", "]">> >>

----------------------------------------------------------------------------
(* C6 - C9: the legacy list, the root, ignored tags.                       *)

RootOnlyWithText == doc.n = 1 /\ Trim(doc.text[1]) # <<>>

\* C7 as stated: for a root-only document with text X the output is the
\* single line "X : /ROOT" for every value of the options.
C7_RootIdentity ==
    (Done /\ RootOnlyWithText) =>
        output = Trim(doc.text[1]) \o <<" ", ":", " ", "/">> \o doc.tagName[1]

\* C7 amended: the same, for every value of the options in which
\* ignoreLeafNodes does not name the root's tag.
C7_RootIdentityUnlessIgnored ==
    (/\ Done /\ RootOnlyWithText
     /\ doc.tagName[1] \notin Members(options.ignoreLeafNodes)) =>
        /\ output = Trim(doc.text[1]) \o <<" ", ":", " ", "/">>
                    \o doc.tagName[1]
        /\ results = <<output>>

\* A root-only document whose root carries a listed attribute and whose tag
\* is in the legacy list, under force-all, gave the one line "X : /A".
C7_Witness ==
    /\ Done /\ RootOnlyWithText
    /\ doc.tagName[1] = TagA
    /\ AttrI \in DOMAIN doc.attrs[1]
    /\ AttrI \in Members(options.attributesToIncludeInPath)
    /\ TagA \in Members(options.exceptionsForIgnoreIndexOne)
    /\ options.forceIndexOneFor = List(<<>>)
    /\ output = <<"X", " ", ":", " ", "/", "A">>

\* C8: every emitted path starts with "/" and the root's tag name, followed
\* directly by the "/" of the next segment or by nothing: the root segment
\* has no predicate and no index.
C8_RootSegmentBare ==
    Done =>
        \A p \in Pushes :
            LET path == log[p].currentPath
                root == <<"/">> \o doc.tagName[1]
            IN  /\ IsPrefix(root, path)
                /\ \/ path = root
                   \/ path[Len(root) + 1] = "/"

\* A leaf below a root that carries a listed attribute and whose tag is in
\* the legacy list and the force list was emitted.
C8_Witness ==
    /\ Done
    /\ doc.tagName[1] = TagA
    /\ AttrI \in DOMAIN doc.attrs[1]
    /\ AttrI \in Members(options.attributesToIncludeInPath)
    /\ TagA \in Members(options.exceptionsForIgnoreIndexOne)
    /\ TagA \in Members(options.forceIndexOneFor)
    /\ \E p \in Pushes : log[p].node # 1

\* Element e, or an element above it, has a tag ignoreLeafNodes names.
UnderIgnored(d, opts, e) ==
    \E a \in AncestorsOrSelf(d.parent, e) :
        d.tagName[a] \in Members(opts.ignoreLeafNodes)

\* C9: an element whose tag is in ignoreLeafNodes yields no line, and no
\* element below it does; the call ends normally with the lines of the
\* other leaves.
C9_IgnoredSubtreeSilent ==
    Done =>
        /\ \A p \in Pushes : ~UnderIgnored(doc, options, log[p].node)
        /\ Len(results) = Cardinality(Pushes)
        /\ \A k \in 1..Len(log) :
              (log[k].op = "visit"
               /\ doc.tagName[log[k].node] \in Members(options.ignoreLeafNodes))
              => \A j \in (k + 1)..Len(log) :
                    ~(log[j].node \in 1..doc.n
                      /\ log[k].node \in
                            AncestorsOrSelf(doc.parent, log[j].node))

\* An ignored element with a leaf child that has text was visited inside a
\* document that has another, emitted, leaf.
C9_Witness ==
    /\ Done
    /\ \E b \in 2..doc.n, l \in 2..doc.n :
          /\ doc.tagName[b] = TagS
          /\ TagS \in Members(options.ignoreLeafNodes)
          /\ doc.parent[l] = b
          /\ Trim(doc.text[l]) # <<>>
          /\ \E k \in 1..Len(log) : log[k].op = "visit" /\ log[k].node = b
    /\ Pushes # {}

----------------------------------------------------------------------------
(* C10: ignored elements and the paths of the others.                      *)

\* The elements that remain when every element with an ignored tag is
\* removed together with its subtree.
Kept(d, opts) == {e \in 1..d.n : ~UnderIgnored(d, opts, e)}

\* The document with only the kept elements, renumbered in document order.
Pruned(d, opts) ==
    LET kept == Kept(d, opts)
        rank(e) == Cardinality({x \in kept : x <= e})
        orig(r) == CHOOSE e \in kept : rank(e) = r
        m == Cardinality(kept)
    IN  [n |-> m,
         parent |-> [r \in 1..m |->
                        IF d.parent[orig(r)] = 0 THEN 0
                        ELSE rank(d.parent[orig(r)])],
         tagName |-> [r \in 1..m |-> d.tagName[orig(r)]],
         attrs |-> [r \in 1..m |-> d.attrs[orig(r)]],
         text |-> [r \in 1..m |-> d.text[orig(r)]]]

\* C10 as stated: the output equals the output on the document from which
\* every element with an ignored tag, and its subtree, has been removed.
C10_IgnoredChildrenInvisible ==
    Done =>
        output = generateXpathList(app, Pruned(doc, options), options).output

\* A kept element with text of its own has child elements, all of them
\* ignored: removing them would turn it from a Branch into a Leaf.
TextBranchLosesAllChildren(d, opts) ==
    \E e \in Kept(d, opts) :
        /\ Trim(d.text[e]) # <<>>
        /\ \E c \in 1..d.n : d.parent[c] = e
        /\ \A c \in 1..d.n :
              d.parent[c] = e => d.tagName[c] \in Members(opts.ignoreLeafNodes)

\* C10 amended: the same equality, for every document and options in which
\* no element that has text of its own has child elements that are all
\* ignored.
C10_IgnoredChildrenInvisibleUnlessTextBranch ==
    (Done /\ ~TextBranchLosesAllChildren(doc, options)) =>
        \A r \in {generateXpathList(app, Pruned(doc, options), options)} :
            output = r.output /\ results = r.results

\* The spec's example: the children S, A, A with S ignored and force-all on
\* give the A's the indices [1] and [2].
C10_Witness ==
    /\ Done
    /\ TagS \in Members(options.ignoreLeafNodes)
    /\ options.forceIndexOneFor = List(<<>>)
    /\ Members(options.exceptionsToIndexOneForcing) = {}
    /\ doc.n = 4 /\ doc.tagName[1] = TagR
    /\ doc.tagName[2] = TagS /\ doc.parent[2] = 1
    /\ Pruned(doc, options).n = 3
    /\ results = << <<"X", " ", ":", " ", "/", "R", "/", "A", "[", "1", "]">>,
                    <<"X", " ", ":", " ", "/", "R", "/", "A", "[", "2", "]">> >>

(***************************************************************************)
(* Counting, leaves and order (claims C11 to C13).                         *)
(***************************************************************************)

\* C11: a child whose tag name is in ignoreLeafNodes never creates an entry
\* in its parent's siblingCounters: after every iteration of a forEach, the
\* counters hold no key of an ignored child of that parent.
C11_IgnoredNeverCounted ==
    Done =>
        \A k \in ChildSteps :
            \A c \in 1..doc.n :
                (/\ doc.parent[c] = log[k].parent
                 /\ doc.tagName[c] \in Members(options.ignoreLeafNodes)) =>
                    NodeKey(doc, c, options)
                        \notin DOMAIN log[k].siblingCounters

\* A string of whitespace only (the empty string included).
IsBlank(s) == \A i \in 1..Len(s) : s[i] \in WhiteSpace

\* t is s without its leading and trailing whitespace, for s not blank.
IsTrimOf(t, s) ==
    \E i, j \in 1..Len(s) :
        /\ i <= j /\ t = SubSeq(s, i, j)
        /\ s[i] \notin WhiteSpace /\ s[j] \notin WhiteSpace
        /\ \A m \in 1..Len(s) : (m < i \/ m > j) => s[m] \in WhiteSpace

\* The Leaf nodes the call has to emit: no child elements, text that is not
\* blank, not ignored and not below an ignored element.
LeafNodes(d, opts) ==
    {e \in Kept(d, opts) :
        /\ ~\E c \in 1..d.n : d.parent[c] = e
        /\ ~IsBlank(d.text[e])}

\* The segment of a child, in closed form: its grouping key, and its
\* occurrence count when that is 2 or more or the rule for a first
\* occurrence asks for it.
SegmentOf(d, opts, c) ==
    LET N == OccurrenceCount(d, opts, c)
    IN  NodeKey(d, c, opts)
        \o (IF N >= 2 \/ IndexOneRule(opts, d.tagName[c])
            THEN Bracketed(N) ELSE <<>>)

\* The absolute path of an element: the bare root name, then the segment of
\* every ancestor below the root, then its own.
RECURSIVE PathOf(_, _, _)
PathOf(d, opts, e) ==
    IF d.parent[e] = 0 THEN <<"/">> \o d.tagName[e]
    ELSE PathOf(d, opts, d.parent[e]) \o <<"/">> \o SegmentOf(d, opts, e)

\* The pushes of the call, in the order they happened.
PushSeq == SelectSeq(log, LAMBDA ev : ev.op = "push")

\* C12: the pushes correspond one-to-one to the Leaf nodes that are neither
\* ignored nor below an ignored element; the pair of a Leaf is its trimmed
\* text and the path built from its ancestors' segments; the lines of the
\* result are these pairs, so that no Branch and no inert node has a line.
C12_OnePairPerLeaf ==
    Done =>
        /\ {PushSeq[i].node : i \in 1..Len(PushSeq)} = LeafNodes(doc, options)
        /\ Len(PushSeq) = Cardinality(LeafNodes(doc, options))
        /\ Len(results) = Len(PushSeq)
        /\ \A i \in 1..Len(PushSeq) :
              /\ IsTrimOf(PushSeq[i].leafValue, doc.text[PushSeq[i].node])
              /\ PushSeq[i].currentPath =
                    PathOf(doc, options, PushSeq[i].node)
              /\ results[i] = PushSeq[i].leafValue \o <<" ", ":", " ">>
                              \o PushSeq[i].currentPath

\* A root with text and three children: a Leaf whose text has whitespace
\* around it, an element with blank text, and an ignored element with text.
\* The only line is the one of the Leaf.
C12_Witness ==
    /\ Done
    /\ doc.n = 4 /\ \A e \in 2..4 : doc.parent[e] = 1
    /\ ~IsBlank(doc.text[1])
    /\ doc.text[2] = <<" ", "X">>
    /\ IsBlank(doc.text[3])
    /\ doc.tagName[4] \in Members(options.ignoreLeafNodes)
    /\ ~IsBlank(doc.text[4])
    /\ Len(results) = 1
    /\ Len(PushSeq) = 1 /\ PushSeq[1].leafValue = <<"X">>

\* C13: the lines of the result are in document order of their Leaf nodes
\* (elements are numbered in document order): when Leaf x precedes Leaf y,
\* the line of x is at an earlier position of the result than the line of y.
C13_DocumentOrder ==
    Done =>
        /\ Len(results) = Len(PushSeq)
        /\ \A x, y \in LeafNodes(doc, options) :
              x < y =>
                \E i, j \in 1..Len(results) :
                    /\ i < j
                    /\ PushSeq[i].node = x /\ PushSeq[j].node = y
                    /\ results[i] = ResultLine(PushSeq[i].leafValue,
                                               PushSeq[i].currentPath)
                    /\ results[j] = ResultLine(PushSeq[j].leafValue,
                                               PushSeq[j].currentPath)

\* A Leaf two levels below the root, followed by a Leaf that is a child of
\* the root: the deeper Leaf comes first in the document and in the result.
C13_Witness ==
    /\ Done
    /\ doc.n = 4 /\ doc.parent = <<0, 1, 2, 1>>
    /\ LeafNodes(doc, options) = {3, 4}
    /\ Len(results) = 2
    /\ PushSeq[1].node = 3 /\ PushSeq[2].node = 4
    /\ Len(PushSeq[1].currentPath) > Len(PushSeq[2].currentPath)

----------------------------------------------------------------------------
(* Attributes in the path (claims C14, C15 and C17): documents whose       *)
(* elements differ in the attributes they carry and in their values.  An   *)
(* attribute value is any string; the two long values hold the characters  *)
(* the path syntax itself is made of.                                      *)

ValueClosingSegment ==
    <<"t", "\"", "]", "/", "A", "[", "@", "t", "=", "\"", "t">>

ValueClosingFragment ==
    <<"t", "\"", "]", "[", "@", "i", "=", "\"", "1">>

AttrMaps ==
    {NoAttrs,
     AttrI :> <<"1">> @@ AttrT :> <<"t">>,
     AttrI :> <<"1">>,
     AttrT :> ValueClosingSegment,
     AttrT :> ValueClosingFragment}

AttrDocsOfSize(n) ==
    {[n |-> n, parent |-> p,
      tagName |-> [e \in 1..n |-> IF e = 1 THEN TagR ELSE TagA],
      attrs |-> [e \in 1..n |-> IF e = 1 THEN NoAttrs ELSE a[e]],
      text |-> [e \in 1..n |-> <<"X">>]] :
        p \in ParentMaps(n), a \in [2..n -> AttrMaps]}

AttrDocs == UNION {AttrDocsOfSize(n) : n \in 1..MaxNodes}

AttrPolicies ==
    [exceptionsForIgnoreIndexOne : {List(<<>>)},
     forceIndexOneFor : {Absent, List(<<>>)},
     exceptionsToIndexOneForcing : {List(<<>>)},
     attributesToIncludeInPath :
        {Absent, List(<<AttrT>>), List(<<AttrT, AttrI>>),
         List(<<AttrI, AttrT>>)},
     ignoreLeafNodes : {List(<<>>)}]

InitAttr ==
    /\ doc \in AttrDocs
    /\ app = "console-app"
    /\ options \in AttrPolicies
    /\ pc = "ready"
    /\ results = <<>>
    /\ output = <<>>
    /\ log = <<>>
    /\ thrown = NoError
    /\ written = NoFile
    /\ earlier = <<>>
    /\ ToolsUnused

SpecAttr == InitAttr /\ [][Next]_vars

\* The predicate fragment in closed form: for the listed names up to
\* position k, in list order, one fragment per name the element carries.
RECURSIVE FragmentsUpTo(_, _, _, _)
FragmentsUpTo(d, c, items, k) ==
    IF k = 0 THEN <<>>
    ELSE FragmentsUpTo(d, c, items, k - 1)
         \o (IF items[k] \in DOMAIN d.attrs[c]
             THEN <<"[", "@">> \o items[k] \o <<"=", "\"">>
                  \o d.attrs[c][items[k]] \o <<"\"", "]">>
             ELSE <<>>)

\* C14: the grouping key of a child is its tag name followed by the
\* fragments [@name="value"] of the names of attributesToIncludeInPath the
\* child carries, in list order and with nothing between them; a listed
\* name the child does not carry adds nothing, and the call returns.
C14_PredicateInListOrder ==
    Done =>
        \A k \in ChildSteps :
            LET c == log[k].node
                items == options.attributesToIncludeInPath.items
            IN  /\ log[k].nodeKey =
                      doc.tagName[c] \o FragmentsUpTo(doc, c, items, Len(items))
                /\ IsPrefix(log[k].nodeKey, log[k].pathSegment)

\* The spec's example, with t for type and i for id: the list <<t, i>> and
\* an element with i="1" and t="t" give [@t="t"][@i="1"]; its sibling with
\* the attribute i only gives [@i="1"].
C14_Witness ==
    /\ Done
    /\ options.attributesToIncludeInPath = List(<<AttrT, AttrI>>)
    /\ \E k, m \in ChildSteps :
          /\ log[k].parent = log[m].parent
          /\ DOMAIN doc.attrs[log[k].node] = {AttrI, AttrT}
          /\ log[k].nodeKey = <<"A", "[", "@", "t", "=", "\"", "t", "\"", "]",
                                "[", "@", "i", "=", "\"", "1", "\"", "]">>
          /\ DOMAIN doc.attrs[log[m].node] = {AttrI}
          /\ log[m].nodeKey = <<"A", "[", "@", "i", "=", "\"", "1", "\"", "]">>
          /\ \E p \in Pushes : OnPathOf(k, p)

\* Two elements have the same values of the included attributes: each
\* listed name is carried by both with one value, or by neither.
SameIncludedValues(d, opts, s, c) ==
    \A a \in Members(opts.attributesToIncludeInPath) :
        /\ a \in DOMAIN d.attrs[s] <=> a \in DOMAIN d.attrs[c]
        /\ a \in DOMAIN d.attrs[s] => d.attrs[s][a] = d.attrs[c][a]

\* C15: the occurrence count of a child is 1 plus the number of its earlier
\* siblings with its grouping key, and siblings with one tag but different
\* values of the included attributes are in separate groups: the count is 1
\* plus the number of earlier siblings with the child's tag and the child's
\* values of the included attributes.
C15_CountPerGroup ==
    Done =>
        \A k \in ChildSteps :
            LET c == log[k].node
                before == {s \in 1..(c - 1) : doc.parent[s] = doc.parent[c]}
            IN  /\ log[k].index =
                      1 + Cardinality({s \in before :
                              NodeKey(doc, s, options) = log[k].nodeKey})
                /\ log[k].index =
                      1 + Cardinality({s \in before :
                              /\ doc.tagName[s] = doc.tagName[c]
                              /\ SameIncludedValues(doc, options, s, c)})

\* C17: two distinct Leaf nodes that are emitted never get the same path.
C17_PathsUnambiguous ==
    Done =>
        \A i, j \in 1..Len(PushSeq) :
            PushSeq[i].node # PushSeq[j].node =>
                PushSeq[i].currentPath # PushSeq[j].currentPath

----------------------------------------------------------------------------
(* Calls that follow each other (claims C16 and C18): after a call has     *)
(* returned, the program calls generateXpathList a second time, on the     *)
(* same document and options or on other ones.                             *)

FirstDocs == UNION {DocsOfSize(n) : n \in 1..(MaxNodes - 1)}

\* Documents of elements A without attributes below a root R, in every
\* shape: the same grouping key under different parents.
ScopeDocsOfSize(n) ==
    {[n |-> n, parent |-> p,
      tagName |-> [e \in 1..n |-> IF e = 1 THEN TagR ELSE TagA],
      attrs |-> [e \in 1..n |-> NoAttrs],
      text |-> [e \in 1..n |-> <<"X">>]] : p \in ParentMaps(n)}

ScopeDocs == UNION {ScopeDocsOfSize(n) : n \in 2..MaxNodes}

RepeatPolicies ==
    {o \in ConsolePolicies :
        /\ o.exceptionsForIgnoreIndexOne = List(<<>>)
        /\ o.ignoreLeafNodes = List(<<>>)}

InitCalls ==
    /\ doc \in FirstDocs
    /\ app = "console-app"
    /\ options \in RepeatPolicies
    /\ pc = "ready"
    /\ results = <<>>
    /\ output = <<>>
    /\ log = <<>>
    /\ thrown = NoError
    /\ written = NoFile
    /\ earlier = <<>>
    /\ ToolsUnused

\* What the second call may be made on: the same document and options, the
\* same document and force-all, or another document and the same options.
SecondCalls ==
    {[doc |-> doc, options |-> options],
     [doc |-> doc,
      options |-> [options EXCEPT !.forceIndexOneFor = List(<<>>)]]}
    \cup {[doc |-> d, options |-> options] : d \in ScopeDocs}

\* A second call of generateXpathList in the same program.
CallAgain ==
    /\ pc = "done"
    /\ \E c \in SecondCalls :
          \E r \in {generateXpathList(app, c.doc, c.options)} :
              /\ doc' = c.doc
              /\ options' = c.options
              /\ results' = r.results
              /\ output' = r.output
              /\ log' = r.log
              /\ thrown' = r.thrown
              /\ pc' = IF r.thrown = NoError THEN "again" ELSE "threw"
    /\ earlier' = Append(earlier, [doc |-> doc, options |-> options,
                                   results |-> results, output |-> output])
    /\ UNCHANGED <<app, written>>
    /\ UNCHANGED toolVars

NextCalls == GenerateXpathList \/ CallAgain

SpecCalls == InitCalls /\ [][NextCalls]_vars

\* A first or a second call has returned.
Returned == pc \in {"done", "again"}

\* C16: after every iteration of a forEach the counters hold the keys of
\* the children of that one parent up to the child of the iteration, each
\* with the number of these children that have the key, and the index of
\* the child is its count among them: nothing counted under another parent
\* or in a call before is in it.
C16_CountersPerBranch ==
    Returned =>
        \A k \in ChildSteps :
            LET c == log[k].node
                sibs == {s \in 1..c : doc.parent[s] = doc.parent[c]}
                key(s) == NodeKey(doc, s, options)
            IN  /\ log[k].parent = doc.parent[c]
                /\ DOMAIN log[k].siblingCounters = {key(s) : s \in sibs}
                /\ \A s \in sibs :
                      log[k].siblingCounters[key(s)] =
                          Cardinality({u \in sibs : key(u) = key(s)})
                /\ log[k].index = Cardinality({u \in sibs : key(u) = key(c)})

\* A second call on R(A(A), A), after a first call on another document in
\* which an A was counted: the A below the first A has the count 1, and the
\* second A below the root the count 2.
C16_Witness ==
    /\ pc = "again"
    /\ doc.n = 4 /\ doc.parent = <<0, 1, 2, 1>> /\ doc \in ScopeDocs
    /\ earlier[1].doc # doc /\ earlier[1].results # <<>>
    /\ \E k, m \in ChildSteps :
          /\ log[k].node = 3 /\ log[k].index = 1
          /\ log[m].node = 4 /\ log[m].index = 2

\* The text of a Leaf without its leading and trailing whitespace.
TrimOf(s) ==
    CHOOSE t \in {SubSeq(s, i, j) : i, j \in 1..Len(s)} : IsTrimOf(t, s)

\* The lines a document and options determine: one per Leaf node, in
\* document order, the trimmed text and the path of the Leaf.
LinesOf(d, opts) ==
    LET leaves == SortedSeq(LeafNodes(d, opts))
    IN  [i \in 1..Len(leaves) |->
            TrimOf(d.text[leaves[i]]) \o <<" ", ":", " ">>
            \o PathOf(d, opts, leaves[i])]

\* C18: a second call on the document and options of the first call returns
\* what the first call returned; and whatever the first call was made on,
\* the second call returns the lines its own document and options
\* determine, joined by newlines.
C18_CallsIndependent ==
    pc = "again" =>
        /\ \A h \in 1..Len(earlier) :
              (earlier[h].doc = doc /\ earlier[h].options = options) =>
                  /\ output = earlier[h].output
                  /\ results = earlier[h].results
        /\ results = LinesOf(doc, options)
        /\ output = Join(results, <<"\n">>)

\* The second call was made on the document and options of the first, and
\* both returned the same two or more lines.
C18_Witness ==
    /\ pc = "again"
    /\ earlier[1].doc = doc /\ earlier[1].options = options
    /\ Len(results) >= 2
    /\ earlier[1].results = results

----------------------------------------------------------------------------
(* Documents without a root or with a parsererror element, and the try     *)
(* block of main of console-app.js (claims C19 and C20).  The input file   *)
(* is taken as readable and the output path as writable.                   *)

\* A parsed document whose documentElement is null.
EmptyDoc ==
    [n |-> 0, parent |-> <<>>, tagName |-> <<>>, attrs |-> <<>>,
     text |-> <<>>]

\* Parsed documents with a parsererror element: as the root, as the only
\* child of the root, and after a Leaf that a traversal would emit.
ErrorDocs ==
    {[n |-> 1, parent |-> <<0>>, tagName |-> <<ParserErrorTag>>,
      attrs |-> <<NoAttrs>>, text |-> << <<"X">> >>],
     [n |-> 2, parent |-> <<0, 1>>, tagName |-> <<TagR, ParserErrorTag>>,
      attrs |-> <<NoAttrs, NoAttrs>>, text |-> << <<>>, <<"X">> >>],
     [n |-> 3, parent |-> <<0, 1, 1>>,
      tagName |-> <<TagR, TagA, ParserErrorTag>>,
      attrs |-> <<NoAttrs, NoAttrs, NoAttrs>>,
      text |-> << <<>>, <<"X">>, <<"X">> >>]}

MainDocs == {EmptyDoc} \cup ErrorDocs \cup DocsOfSize(1) \cup DocsOfSize(2)

\* The content a run before this one left at outputPath.
OldContent == <<"o", "l", "d">>

\* The output side of the file system when main starts: nothing, the
\* directory only, or the directory with a file of a run before.
OutputsAtStart ==
    {NoFile, [dir |-> TRUE, exists |-> FALSE, content |-> <<>>],
     File(OldContent)}

InitMain ==
    /\ doc \in MainDocs
    /\ \E c \in Calls : app = c.app /\ options = c.options
    /\ pc = "ready"
    /\ results = <<>>
    /\ output = <<>>
    /\ log = <<>>
    /\ thrown = NoError
    /\ written \in OutputsAtStart
    /\ earlier = <<>>
    /\ ToolsUnused

\* The try block of main of console-app.js: the output directory is made,
\* the input is read, generateXpathList is called and its return value is
\* written to outputPath ("success"); an error thrown on the way is caught
\* and reported ("failed").
MainProcess ==
    /\ pc = "ready"
    /\ app = "console-app"
    /\ \E r \in {generateXpathList(app, doc, options)} :
           /\ results' = r.results
           /\ output' = r.output
           /\ log' = r.log
           /\ thrown' = r.thrown
           /\ IF r.thrown = NoError
              THEN /\ written' = File(r.output)
                   /\ pc' = "success"
              ELSE /\ written' = [written EXCEPT !.dir = TRUE]
                   /\ pc' = "failed"
    /\ UNCHANGED <<doc, options, app, earlier>>
    /\ UNCHANGED toolVars

NextMain == GenerateXpathList \/ MainProcess

SpecMain == InitMain /\ [][NextMain]_vars

\* C19: for a parsed document without a root element generateXpathList of
\* console-app.js and of parser.js returns the empty string, with no line
\* and no element visited, and throws nothing.
C19_NoRootEmptyResult ==
    (pc # "ready" /\ doc.n = 0) =>
        /\ thrown = NoError
        /\ pc \in {"done", "success"}
        /\ results = <<>>
        /\ output = <<>>
        /\ log = <<>>

\* generateXpathList of parser.js has returned for the document without a
\* root.
C19_Witness ==
    /\ pc = "done" /\ app = "parser"
    /\ doc = EmptyDoc
    /\ output = <<>> /\ thrown = NoError

HasParserError(d) == \E e \in 1..d.n : d.tagName[e] = ParserErrorTag

\* C20: on a parsed document with a parsererror element the call throws
\* 'XML Parsing Error: ...' for the first such element, no element was
\* visited and no line returned; main of console-app.js then leaves the
\* file at outputPath as it was: absent if it was absent, and with its old
\* content if it was there.
C20_ParseErrorNoOutput ==
    [][(pc = "ready" /\ HasParserError(doc)) =>
          /\ pc' \in {"threw", "failed"}
          /\ thrown'.name = "XML Parsing Error"
          /\ thrown'.errorNode \in 1..doc.n
          /\ doc.tagName[thrown'.errorNode] = ParserErrorTag
          /\ log' = <<>>
          /\ results' = <<>>
          /\ output' = <<>>
          /\ written'.exists = written.exists
          /\ written'.content = written.content]_vars

\* main failed on the document R(A, parsererror), in which the Leaf A
\* precedes the parsererror element, and no file is at outputPath.
C20_Witness ==
    /\ pc = "failed"
    /\ doc.n = 3 /\ doc.tagName[3] = ParserErrorTag
    /\ thrown = [name |-> "XML Parsing Error", errorNode |-> 3]
    /\ results = <<>> /\ log = <<>>
    /\ ~written.exists /\ written.dir

----------------------------------------------------------------------------
(* Errors and lines (claims C21 and C22).                                  *)

\* C21: on a document that has a root element, whatever its tag names,
\* attributes and text, and for every options, generateXpathList returns
\* and throws nothing.
C21_NeverThrowsOnTree ==
    (pc # "ready" /\ doc.n > 0) => thrown = NoError

\* String.prototype.split(sep) for a separator of one character: the
\* pieces between the separators; the empty string gives one empty piece.
Split(s, sep) ==
    LET at == {k \in 1..Len(s) : s[k] = sep}
        n == Cardinality(at)
        pos(i) ==
            IF i = 0 THEN 0
            ELSE IF i = n + 1 THEN Len(s) + 1
            ELSE CHOOSE k \in at : Cardinality({j \in at : j < k}) = i - 1
    IN  [i \in 1..(n + 1) |-> SubSeq(s, pos(i - 1) + 1, pos(i) - 1)]

\* outputContent.split('\n').filter(line => line.trim() !== '')
OutputLines(outputContent) ==
    SelectSeq(Split(outputContent, "\n"), LAMBDA line : Trim(line) # <<>>)

\* C22: the returned text, split on newline (blank lines dropped, as main
\* counts them), has one line per emitted Leaf, in order, and line i is the
\* value of the i-th emitted Leaf, then ' : ', then its path.
C22_OneLinePerLeaf ==
    Done =>
        /\ Len(OutputLines(output)) = Len(PushSeq)
        /\ \A i \in 1..Len(PushSeq) :
              OutputLines(output)[i] =
                  PushSeq[i].leafValue \o <<" ", ":", " ">>
                  \o PushSeq[i].currentPath

----------------------------------------------------------------------------
(* Regular expressions, as String.prototype.match and replace run them.    *)
(* A pattern is a sequence of atoms: a character, the assertion $ (end of  *)
(* input, no m flag), one or more characters of a class (greedy, with the  *)
(* number of its capture group or 0), or an optional group (?: ... )?.     *)

Chr(c) == [k |-> "chr", c |-> c]

EndOfInput == [k |-> "end"]

\* (class+) for a class given by its characters, negated or not.
OneOrMore(negated, chars, group) ==
    [k |-> "more", negated |-> negated, chars |-> chars, group |-> group]

Optional(pattern) == [k |-> "opt", pattern |-> pattern]

\* The atoms of a run of literal characters.
RECURSIVE Literal(_)
Literal(s) == IF s = <<>> THEN <<>> ELSE <<Chr(Head(s))>> \o Literal(Tail(s))

NoCaptures == [g \in 1..2 |-> [matched |-> FALSE, text |-> <<>>]]

InClass(atom, c) ==
    IF atom.negated THEN c \notin atom.chars ELSE c \in atom.chars

\* The length of the longest run of class characters of s from position p.
RECURSIVE RunLength(_, _, _)
RunLength(atom, s, p) ==
    IF p <= Len(s) /\ InClass(atom, s[p])
    THEN 1 + RunLength(atom, s, p + 1) ELSE 0

\* The ways pattern matches s from position p, in the order the
\* backtracking matcher tries them; the match is the first one.
RECURSIVE MatchSeq(_, _, _, _)
RECURSIVE MatchRuns(_, _, _, _, _)
MatchSeq(s, p, pattern, caps) ==
    IF pattern = <<>> THEN << [end |-> p, caps |-> caps] >>
    ELSE LET atom == Head(pattern)
             rest == Tail(pattern)
         IN  IF atom.k = "chr"
             THEN IF p <= Len(s) /\ s[p] = atom.c
                  THEN MatchSeq(s, p + 1, rest, caps) ELSE <<>>
             ELSE IF atom.k = "end"
             THEN IF p = Len(s) + 1
                  THEN MatchSeq(s, p, rest, caps) ELSE <<>>
             ELSE IF atom.k = "more"
             THEN MatchRuns(s, p, pattern, caps, RunLength(atom, s, p))
             ELSE MatchSeq(s, p, atom.pattern \o rest, caps)
                  \o MatchSeq(s, p, rest, caps)

\* A greedy class+: the longest run first, then the shorter ones.
MatchRuns(s, p, pattern, caps, n) ==
    IF n = 0 THEN <<>>
    ELSE LET atom == Head(pattern)
             taken == IF atom.group = 0 THEN caps
                      ELSE [caps EXCEPT ![atom.group] =
                               [matched |-> TRUE,
                                text |-> SubSeq(s, p, p + n - 1)]]
         IN  MatchSeq(s, p + n, Tail(pattern), taken)
             \o MatchRuns(s, p, pattern, caps, n - 1)

NoMatch == [found |-> FALSE, index |-> 0, end |-> 0, caps |-> NoCaptures]

\* str.match(regex) without the g flag: the leftmost match, from p on.
RECURSIVE SearchFrom(_, _, _)
SearchFrom(s, p, pattern) ==
    IF p > Len(s) + 1 THEN NoMatch
    ELSE LET ms == MatchSeq(s, p, pattern, NoCaptures)
         IN  IF ms # <<>>
             THEN [found |-> TRUE, index |-> p, end |-> ms[1].end,
                   caps |-> ms[1].caps]
             ELSE SearchFrom(s, p + 1, pattern)

Match(s, pattern) == SearchFrom(s, 1, pattern)

\* str.replace(regex, replacement) with the g flag.
RECURSIVE ReplaceFrom(_, _, _, _)
ReplaceFrom(s, p, pattern, replacement) ==
    LET m == SearchFrom(s, p, pattern)
    IN  IF ~m.found THEN SubSeq(s, p, Len(s))
        ELSE SubSeq(s, p, m.index - 1) \o replacement
             \o (IF m.end > m.index
                 THEN ReplaceFrom(s, m.end, pattern, replacement)
                 ELSE IF m.index > Len(s) THEN <<>>
                 ELSE <<s[m.index]>>
                      \o ReplaceFrom(s, m.index + 1, pattern, replacement))

ReplaceAll(s, pattern, replacement) == ReplaceFrom(s, 1, pattern, replacement)

----------------------------------------------------------------------------
(* The reverse transform of src/unnamed/part_003 (claim C23):              *)
(* createCommonBlock(originalXpath).                                       *)

\* escapeXml(unsafe)
RECURSIVE escapeXml(_)
escapeXml(unsafe) ==
    IF unsafe = <<>> THEN <<>>
    ELSE LET c == Head(unsafe)
         IN  (IF c = "<" THEN <<"&", "l", "t", ";">>
              ELSE IF c = ">" THEN <<"&", "g", "t", ";">>
              ELSE IF c = "&" THEN <<"&", "a", "m", "p", ";">>
              ELSE IF c = "'" THEN <<"&", "a", "p", "o", "s", ";">>
              ELSE IF c = "\"" THEN <<"&", "q", "u", "o", "t", ";">>
              ELSE <<c>>)
             \o escapeXml(Tail(unsafe))

\* The regular expression of line 21, /$$[^$$]+\]/g: two assertions of the
\* end of input, then one or more characters other than $, then ].
IndexPattern ==
    <<EndOfInput, EndOfInput, OneOrMore(TRUE, {"$"}, 0), Chr("]")>>

\* str.substring(1)
SubstringFrom1(s) == SubSeq(s, 2, Len(s))

\* str.replace(/\//g, '\\')
SlashesToBackslashes(s) ==
    [i \in 1..Len(s) |-> IF s[i] = "/" THEN "\\" ELSE s[i]]

\* createCommonBlock of part_003; the block is given by the texts of its
\* five elements.
createCommonBlock3(originalXpath) ==
    LET uadXpath == originalXpath
        cleanXpath == ReplaceAll(originalXpath, IndexPattern, <<>>)
        parts == Split(SubstringFrom1(cleanXpath), "/")
        aciTagName == parts[Len(parts)] \o <<".", "1">>
        pathOnlyParts == SubSeq(parts, 1, Len(parts) - 1)
        aciTagPath == <<"\\">> \o Join(pathOnlyParts, <<"\\">>) \o <<"\\">>
        aciTag == SlashesToBackslashes(SubstringFrom1(cleanXpath))
                  \o <<".", "1">>
        aciTagIsCheckbox == <<"f", "a", "l", "s", "e">>
    IN  [ACI_TagPath |-> escapeXml(aciTagPath),
         ACI_TagName |-> escapeXml(aciTagName),
         ACI_Tag |-> escapeXml(aciTag),
         ACI_TagIsCheckbox |-> escapeXml(aciTagIsCheckbox),
         UAD_Xpath |-> escapeXml(uadXpath)]

\* The paths the transform is run on: /R and one or two segments below it,
\* each a tag with no fragment, an index, a predicate, or both.
TagB == <<"B">>

Fragments ==
    {<<>>, <<"[", "1", "]">>, <<"[", "2", "]">>,
     <<"[", "@", "t", "=", "\"", "x", "\"", "]">>,
     <<"[", "@", "t", "=", "\"", "x", "\"", "]", "[", "2", "]">>}

Segments == [tagName : {TagA, TagB}, fragments : Fragments]

SegmentLists ==
    {<<>>} \cup {<<a>> : a \in Segments}
    \cup {<<a, b>> : a \in Segments, b \in Segments}

RECURSIVE PathText(_)
PathText(segments) ==
    IF segments = <<>> THEN <<"/">> \o TagR
    ELSE PathText(SubSeq(segments, 1, Len(segments) - 1)) \o <<"/">>
         \o segments[Len(segments)].tagName
         \o segments[Len(segments)].fragments

\* The values the variables of the path generator have while another
\* program runs.
NoOptions ==
    [exceptionsForIgnoreIndexOne |-> Absent, forceIndexOneFor |-> Absent,
     exceptionsToIndexOneForcing |-> Absent,
     attributesToIncludeInPath |-> Absent, ignoreLeafNodes |-> Absent]

GeneratorUnused ==
    /\ doc = EmptyDoc
    /\ options = NoOptions
    /\ app = "none"
    /\ results = <<>>
    /\ output = <<>>
    /\ log = <<>>
    /\ thrown = NoError
    /\ written = NoFile
    /\ earlier = <<>>

generatorVars ==
    <<doc, options, app, results, output, log, thrown, written, earlier>>

InitCommonBlock ==
    /\ GeneratorUnused
    /\ pc = "ready"
    /\ answers = Unused /\ filter = Unused /\ mapper = Unused
    /\ \E segments \in SegmentLists :
          reverser = [used |-> TRUE, segments |-> segments,
                      originalXpath |-> PathText(segments), block |-> Unused]

CreateCommonBlock3 ==
    /\ pc = "ready"
    /\ reverser.used
    /\ reverser' = [reverser EXCEPT
                       !.block = createCommonBlock3(reverser.originalXpath)]
    /\ pc' = "done"
    /\ UNCHANGED <<generatorVars, answers, filter, mapper>>

NextCommonBlock == CreateCommonBlock3

SpecCommonBlock == InitCommonBlock /\ [][NextCommonBlock]_vars

\* The bare tag names of a path: R and the tag name of every segment.
BareNames(segments) ==
    <<TagR>> \o [i \in 1..Len(segments) |-> segments[i].tagName]

\* C23: the record built for a path has as ACI_TagName the bare tag name of
\* the last segment followed by .1, as ACI_TagPath the bare tag names of
\* the segments before it between backslashes, and as UAD_Xpath the
\* original path.
C23_FragmentsStripped ==
    (pc = "done" /\ reverser.used) =>
        LET names == BareNames(reverser.segments)
        IN  /\ reverser.block.ACI_TagName = names[Len(names)] \o <<".", "1">>
            /\ reverser.block.ACI_TagPath =
                  <<"\\">> \o Join(SubSeq(names, 1, Len(names) - 1), <<"\\">>)
                  \o <<"\\">>
            /\ reverser.block.UAD_Xpath = escapeXml(reverser.originalXpath)

----------------------------------------------------------------------------
(* filter-app.js (claims C24 and C28): parseTextFile, filterCommonBlocks   *)
(* and main.  The XML file is given by what the parser makes of it: the    *)
(* common elements in document order, each with the texts of its UAD_Xpath *)
(* elements in document order, and whether a parsererror element is there. *)
(* A block is serialized as it is.                                         *)

\* String.prototype.split(sep) for a separator of several characters.
RECURSIVE SplitSepFrom(_, _, _, _)
SplitSepFrom(s, sep, k, piece) ==
    IF k > Len(s) THEN <<piece>>
    ELSE IF k + Len(sep) - 1 <= Len(s) /\ SubSeq(s, k, k + Len(sep) - 1) = sep
    THEN <<piece>> \o SplitSepFrom(s, sep, k + Len(sep), <<>>)
    ELSE SplitSepFrom(s, sep, k + 1, Append(piece, s[k]))

SplitSep(s, sep) == SplitSepFrom(s, sep, 1, <<>>)

Separator == <<" ", ":", " ">>

\* parseTextFile(filePath), on the content of the file.
parseTextFile(content) ==
    LET lines == OutputLines(content)
    IN  {Trim(SplitSep(lines[i], Separator)[2]) :
            i \in {j \in 1..Len(lines) :
                      Len(SplitSep(lines[j], Separator)) = 2}}

\* Faulty variant, for fault injection: the text of UAD_Xpath is trimmed
\* before it is looked up.
Has_Trimmed(xpathSet, uadXpathValue) == Trim(uadXpathValue) \in xpathSet

\* xpathSet.has(uadXpathValue)
Has(xpathSet, uadXpathValue) == uadXpathValue \in xpathSet

\* The for loop of filterCommonBlocks, from block i on.
RECURSIVE filterFrom(_, _, _, _)
filterFrom(commonBlocks, xpathSet, i, acc) ==
    IF i > Len(commonBlocks) THEN acc
    ELSE LET block == commonBlocks[i]
             uadXpathNodes == block.uadXpaths
             kept == Len(uadXpathNodes) > 0 /\ Has(xpathSet, uadXpathNodes[1])
         IN  filterFrom(commonBlocks, xpathSet, i + 1,
                 IF kept
                 THEN [filteredBlocks |-> Append(acc.filteredBlocks, block),
                       matchedCount |-> acc.matchedCount + 1]
                 ELSE acc)

\* filterCommonBlocks(xmlPath, xpathSet), on the parsed XML.
filterCommonBlocks(xml, xpathSet) ==
    IF xml.parsererror
    THEN [threw |-> TRUE, filteredBlocks |-> <<>>, matchedCount |-> 0,
          totalBlocks |-> 0]
    ELSE LET r == filterFrom(xml.commonBlocks, xpathSet, 1,
                             [filteredBlocks |-> <<>>, matchedCount |-> 0])
         IN  [threw |-> FALSE, filteredBlocks |-> r.filteredBlocks,
              matchedCount |-> r.matchedCount,
              totalBlocks |-> Len(xml.commonBlocks)]

\* The paths and the lines of the text file.
PathA == <<"/", "R", "/", "A">>
PathB == <<"/", "R", "/", "B">>
PathC == <<"/", "R", "/", "C">>

TextLines ==
    {<<"v">> \o Separator \o PathA,
     <<"v">> \o Separator \o <<" ">> \o PathB \o <<" ">>,
     <<"v">> \o Separator \o <<"w">> \o Separator \o PathC,
     PathC,
     <<" ">>}

TextFiles ==
    {<<>>} \cup {<<a>> : a \in TextLines}
    \cup {<<a, b>> : a \in TextLines, b \in TextLines}

\* The common blocks of the XML file: without UAD_Xpath, with one, with its
\* text padded, and with two.
CommonBlocks ==
    {[id |-> i, uadXpaths |-> u] :
        i \in 1..2,
        u \in {<<>>, <<PathA>>, <<PathB>>, <<PathC>>,
               <<PathA \o <<" ">> >>, <<PathC, PathA>>}}

XmlFiles ==
    [parsererror : BOOLEAN,
     commonBlocks : {<<>>} \cup {<<b>> : b \in {c \in CommonBlocks : c.id = 1}}
                    \cup {<<b, c>> : b \in {c \in CommonBlocks : c.id = 1},
                                     c \in {d \in CommonBlocks : d.id = 2}}]

InitFilter ==
    /\ GeneratorUnused
    /\ pc = "ready"
    /\ answers = Unused /\ reverser = Unused /\ mapper = Unused
    /\ \E t \in TextFiles, x \in XmlFiles, y \in BOOLEAN :
          filter = [used |-> TRUE, textLines |-> t, xml |-> x,
                    showUnmatched |-> y,
                    xpathSet |-> {}, filteredBlocks |-> <<>>,
                    matchedCount |-> 0, totalBlocks |-> 0,
                    outputXml |-> Unused, warning |-> 0, listed |-> {}]

\* main of filter-app.js, with both input files present: it parses the
\* text file, filters the blocks, writes the output ("success"), warns with
\* xpathSet.size - matchedCount when matchedCount is less than the size of
\* the set, and lists the unmatched paths if asked to; an error thrown on
\* the way is caught ("failed").  warning = 0 stands for no warning.
FilterMain ==
    /\ pc = "ready"
    /\ filter.used
    /\ \E xpathSet \in {parseTextFile(Join(filter.textLines, <<"\n">>))} :
       \E r \in {filterCommonBlocks(filter.xml, xpathSet)} :
          IF r.threw
          THEN /\ filter' = [filter EXCEPT !.xpathSet = xpathSet]
               /\ pc' = "failed"
          ELSE LET size == Cardinality(xpathSet)
                   warns == r.matchedCount < size
                   matchedXpaths ==
                       {filter.xml.commonBlocks[i].uadXpaths[1] :
                           i \in {j \in 1..Len(filter.xml.commonBlocks) :
                               Len(filter.xml.commonBlocks[j].uadXpaths) > 0}}
               IN  /\ filter' = [filter EXCEPT
                          !.xpathSet = xpathSet,
                          !.filteredBlocks = r.filteredBlocks,
                          !.matchedCount = r.matchedCount,
                          !.totalBlocks = r.totalBlocks,
                          !.outputXml = [MappingData |-> r.filteredBlocks],
                          !.warning = IF warns THEN size - r.matchedCount
                                      ELSE 0,
                          !.listed = IF warns /\ filter.showUnmatched
                                     THEN xpathSet \ matchedXpaths ELSE {}]
                   /\ pc' = "success"
    /\ UNCHANGED <<generatorVars, answers, reverser, mapper>>

NextFilter == FilterMain

SpecFilter == InitFilter /\ [][NextFilter]_vars

\* The path set of a text file, in closed form: the trimmed text after the
\* separator, for every line that is not blank and has the separator at
\* exactly one place.
SeparatorPlaces(line) ==
    {i \in 1..Len(line) :
        i + 2 <= Len(line) /\ SubSeq(line, i, i + 2) = Separator}

PathSetOf(textLines) ==
    {p \in {PathA, PathB, PathC} :
        \E k \in 1..Len(textLines) :
            /\ Cardinality(SeparatorPlaces(textLines[k])) = 1
            /\ \E i \in SeparatorPlaces(textLines[k]) :
                  IsTrimOf(p, SubSeq(textLines[k], i + 3, Len(textLines[k])))}

\* The first UAD_Xpath text of a block is in the set.
Matches(block, paths) ==
    block.uadXpaths # <<>> /\ block.uadXpaths[1] \in paths

\* C24: filterCommonBlocks keeps exactly the common blocks that have a
\* UAD_Xpath whose text (of the first one, as it is) is in the path set of
\* the text file, in document order; matchedCount is the number of blocks
\* kept and totalBlocks the number of common blocks.
C24_FilterExact ==
    (pc = "success" /\ filter.used) =>
        LET paths == PathSetOf(filter.textLines)
        IN  /\ filter.xpathSet = paths
            /\ filter.filteredBlocks =
                  SelectSeq(filter.xml.commonBlocks,
                            LAMBDA b : Matches(b, paths))
            /\ filter.matchedCount = Len(filter.filteredBlocks)
            /\ filter.totalBlocks = Len(filter.xml.commonBlocks)

\* Two paths in the set; the first block has a path of the set and is kept,
\* the second has the same path with a blank after it and is dropped.
C24_Witness ==
    /\ pc = "success" /\ filter.used
    /\ filter.xpathSet = {PathA, PathB}
    /\ Len(filter.xml.commonBlocks) = 2
    /\ filter.xml.commonBlocks[1].uadXpaths = <<PathA>>
    /\ filter.xml.commonBlocks[2].uadXpaths = <<PathA \o <<" ">> >>
    /\ filter.filteredBlocks = <<filter.xml.commonBlocks[1]>>
    /\ filter.matchedCount = 1 /\ filter.totalBlocks = 2

\* C28: the warning is raised exactly when some path of the set is the
\* UAD_Xpath of no common block, and the number it reports is the number
\* of such paths.
C28_WarningCountsUnmatched ==
    (pc = "success" /\ filter.used) =>
        LET blocks == filter.xml.commonBlocks
            unmatched == {p \in filter.xpathSet :
                            ~\E i \in 1..Len(blocks) : Matches(blocks[i], {p})}
        IN  filter.warning = Cardinality(unmatched)

----------------------------------------------------------------------------
(* One pass (claim C25).  The call is one step of the program; the number  *)
(* of entries of traverse it makes is bounded by the size of the document. *)

\* How many times traverse was entered for element e.
Visits(e) ==
    Cardinality({k \in 1..Len(log) : log[k].op = "visit" /\ log[k].node = e})

\* C25: when the call has returned, traverse was entered exactly once for
\* every element that is neither ignored nor below an ignored element, never
\* for an element below an ignored one, for no element twice, and at most
\* as many times as the document has elements.
C25_TerminatesInOnePass ==
    Done =>
        /\ \A e \in 1..doc.n :
              /\ Visits(e) <= 1
              /\ e \in Kept(doc, options) => Visits(e) = 1
              /\ (\E a \in AncestorsOrSelf(doc.parent, doc.parent[e]) :
                      a \notin Kept(doc, options)) => Visits(e) = 0
        /\ Cardinality({k \in 1..Len(log) : log[k].op = "visit"}) <= doc.n

\* The call returned for a document of four elements of which one is
\* ignored and has a child: three visits, none below the ignored element.
C25_Witness ==
    /\ Done
    /\ doc.n = 4
    /\ \E e \in 2..3 :
          /\ doc.tagName[e] \in Members(options.ignoreLeafNodes)
          /\ doc.parent[e + 1] = e
          /\ Visits(e) = 1 /\ Visits(e + 1) = 0
    /\ Cardinality({k \in 1..Len(log) : log[k].op = "visit"}) = 3

----------------------------------------------------------------------------
(* The two versions of traverse (claim C26).                               *)

\* A first occurrence that only the legacy rule indexes: the tag is in
\* exceptionsForIgnoreIndexOne, is not forced and is not in
\* exceptionsToIndexOneForcing.
LegacyOnly(opts, tagName, index) ==
    /\ index = 1
    /\ Includes(opts.exceptionsForIgnoreIndexOne, tagName)
    /\ ~(opts.forceIndexOneFor.present
         /\ (Len(opts.forceIndexOneFor.items) = 0
             \/ Includes(opts.forceIndexOneFor, tagName)))
    /\ ~Includes(opts.exceptionsToIndexOneForcing, tagName)

\* C26: what console-app.js returned for a document and a policy is what
\* parser.js returns for them when the legacy list is empty or absent, and
\* when the two differ some child was a first occurrence that only the
\* legacy rule indexes.
C26_ParserAgreesWithoutLegacy ==
    (Done /\ app = "console-app") =>
        \A r \in {generateXpathList("parser", doc, options)} :
            /\ Members(options.exceptionsForIgnoreIndexOne) = {}
                   => r.output = output /\ r.results = results
            /\ r.output # output =>
                   \E k \in ChildSteps :
                       LegacyOnly(options, doc.tagName[log[k].node], log[k].index)

\* The legacy list is empty, a first occurrence is indexed by the force-all
\* rule, and a leaf was reported.
C26_Witness ==
    /\ Done /\ app = "console-app"
    /\ options.exceptionsForIgnoreIndexOne = List(<<>>)
    /\ options.forceIndexOneFor = List(<<>>)
    /\ options.exceptionsToIndexOneForcing = List(<<>>)
    /\ \E k \in ChildSteps : log[k].index = 1
    /\ Len(results) > 1

----------------------------------------------------------------------------
(* The prompts of console-app.js (claim C27).                              *)

\* The longest answer to a prompt.
MaxAnswer == 4

\* defaults.legacyExceptions and defaults.forceIndexTags
DefaultLegacyExceptions == <<>>

DefaultForceIndexTags == <<>>

\* defaults.forceExceptions (lines 116-125)
DefaultForceExceptions ==
    <<<<"M", "E", "S", "S", "A", "G", "E">>,
      <<"D", "O", "C", "U", "M", "E", "N", "T", "_", "S", "E", "T",
        "S">>,
      <<"D", "O", "C", "U", "M", "E", "N", "T", "_", "S", "E", "T">>,
      <<"D", "O", "C", "U", "M", "E", "N", "T", "S">>,
      <<"D", "O", "C", "U", "M", "E", "N", "T">>,
      <<"D", "E", "A", "L", "_", "S", "E", "T", "S">>,
      <<"D", "E", "A", "L", "_", "S", "E", "T">>,
      <<"D", "E", "A", "L", "S">>,
      <<"D", "E", "A", "L">>,
      <<"S", "E", "R", "V", "I", "C", "E", "S">>,
      <<"S", "E", "R", "V", "I", "C", "E">>,
      <<"V", "A", "L", "U", "A", "T", "I", "O", "N">>,
      <<"V", "A", "L", "U", "A", "T", "I", "O", "N", "_", "R", "E",
        "S", "P", "O", "N", "S", "E">>,
      <<"V", "A", "L", "U", "A", "T", "I", "O", "N", "_", "A", "N",
        "A", "L", "Y", "S", "E", "S">>,
      <<"V", "A", "L", "U", "A", "T", "I", "O", "N", "_", "A", "N",
        "A", "L", "Y", "S", "I", "S">>,
      <<"P", "R", "O", "P", "E", "R", "T", "I", "E", "S">>>>

\* await askQuestion(prompt) || fallback
OrDefault(answer, fallback) == IF answer = <<>> THEN fallback ELSE answer

\* Faulty variant, for fault injection: the blank items kept.
TagList_Unfiltered(str) ==
    LET parts == Split(str, ",")
    IN  [i \in 1..Len(parts) |-> Trim(parts[i])]

\* str.split(',').map(item => item.trim()).filter(item => item)
TagList(str) ==
    LET parts == Split(str, ",")
        trimmed == [i \in 1..Len(parts) |-> Trim(parts[i])]
    IN  SelectSeq(trimmed, LAMBDA item : item # <<>>)

\* str ? str.split(',')... : []
TagListOrEmpty(str) == IF str # <<>> THEN TagList(str) ELSE <<>>

\* The part of config (lines 169-179) that the legacy prompt and the two
\* force prompts decide.  forceIndexStr is the answer itself, or the joined
\* default when the answer is empty (lines 153-160).
ResolvedConfig(exceptionsInput, forceIndexInput, forceExceptionsInput) ==
    LET exceptionsStr ==
            OrDefault(exceptionsInput, Join(DefaultLegacyExceptions, <<",">>))
        forceIndexStr ==
            IF forceIndexInput = <<>>
            THEN Join(DefaultForceIndexTags, <<",">>)
            ELSE forceIndexInput
        forceExceptionsStr ==
            OrDefault(forceExceptionsInput, Join(DefaultForceExceptions, <<",">>))
    IN  [exceptionsForIgnoreIndexOne |-> List(TagListOrEmpty(exceptionsStr)),
         forceIndexOneFor |->
            IF forceIndexStr = <<>> THEN List(<<>>)
            ELSE List(TagListOrEmpty(forceIndexStr)),
         exceptionsToIndexOneForcing |->
            List(TagListOrEmpty(forceExceptionsStr))]

AnswerChars == {"A", "B", ",", " "}

Answers == UNION {[1..n -> AnswerChars] : n \in 0..MaxAnswer}

ShortAnswers == {<<>>, <<"A">>}

\* The answers typed at the legacy prompt and at the two force prompts.
InitConfig ==
    /\ GeneratorUnused
    /\ pc = "ready"
    /\ reverser = Unused /\ filter = Unused /\ mapper = Unused
    /\ \E f \in Answers, l \in ShortAnswers, x \in ShortAnswers :
          answers = [used |-> TRUE, exceptionsInput |-> l,
                     forceIndexInput |-> f, forceExceptionsInput |-> x,
                     config |-> Unused]

\* main of console-app.js from the prompts to the construction of config
\* (lines 142-179).
ResolveConfig ==
    /\ pc = "ready"
    /\ answers.used
    /\ answers' = [answers EXCEPT
                      !.config = ResolvedConfig(answers.exceptionsInput,
                                                answers.forceIndexInput,
                                                answers.forceExceptionsInput)]
    /\ pc' = "configured"
    /\ UNCHANGED <<generatorVars, reverser, filter, mapper>>

NextConfig == ResolveConfig

SpecConfig == InitConfig /\ [][NextConfig]_vars

\* An answer made of commas and blanks only.
OnlySeparators(answer) == \A i \in 1..Len(answer) : answer[i] \in {",", " "}

\* C27: whatever is answered at the force prompt, config.forceIndexOneFor
\* is a list; it is the empty list when the answer is empty and when the
\* answer holds only commas and blanks, and then it forces the index of
\* every tag that is not excepted; any other answer gives a list of
\* non-blank trimmed tags.  The absent list is never the result.
C27_ForceNothingNotSelectable ==
    pc = "configured" =>
        LET config == answers.config
            force == config.forceIndexOneFor
        IN  /\ force.present
            /\ force # Absent
            /\ OnlySeparators(answers.forceIndexInput) <=> force.items = <<>>
            /\ force.items = <<>> =>
                   \A t \in {TagA, TagB} :
                       ~Includes(config.exceptionsToIndexOneForcing, t)
                           => ShouldShowIndexConsole(config, t)
            /\ \A i \in 1..Len(force.items) :
                   force.items[i] # <<>> /\ Trim(force.items[i]) = force.items[i]

\* An answer of commas and blanks resolved to the empty list, which forces
\* the index of a tag that no list names.
C27_Witness ==
    /\ pc = "configured"
    /\ answers.forceIndexInput = <<",", " ", ",">>
    /\ answers.exceptionsInput = <<>>
    /\ answers.forceExceptionsInput = <<>>
    /\ Len(answers.config.exceptionsToIndexOneForcing.items) = 16
    /\ answers.config.forceIndexOneFor = List(<<>>)
    /\ ShouldShowIndexConsole(answers.config, TagB)

----------------------------------------------------------------------------
(* main of reverser-app.js (claim C29).                                    *)

Null == [isNull |-> TRUE, fields |-> <<>>]

\* A <common> block: its child elements in order, each a name and the
\* escaped text.
Block(fields) == [isNull |-> FALSE, fields |-> fields]

LiteralTrue == <<"t", "r", "u", "e">>

LiteralFalse == <<"f", "a", "l", "s", "e">>

LiteralURAR == <<"U", "R", "A", "R">>

\* String.prototype.startsWith
StartsWith(s, prefix) ==
    Len(s) >= Len(prefix) /\ SubSeq(s, 1, Len(prefix)) = prefix

\* The five-element block of a value that starts with URAR.
UrarBlock(aciValue, uadXpath) ==
    LET uadXpathTag == uadXpath
        aciTag == aciValue
        aciParts == Split(aciTag, "\\")
        aciTagName == aciParts[Len(aciParts)]
        pathParts == SubSeq(aciParts, 1, Len(aciParts) - 1)
        aciTagPath == <<"\\">> \o Join(pathParts, <<"\\">>) \o <<"\\">>
        aciTagIsCheckbox == LiteralFalse
    IN  Block(<<<<"ACI_TagPath", escapeXml(aciTagPath)>>,
                <<"ACI_TagName", escapeXml(aciTagName)>>,
                <<"ACI_Tag", escapeXml(aciTag)>>,
                <<"ACI_TagIsCheckbox", escapeXml(aciTagIsCheckbox)>>,
                <<"UAD_Xpath", escapeXml(uadXpathTag)>>>>)

\* Faulty variant, for fault injection: the URAR rule tested first.
createCommonBlock_UrarFirst(aciValue, uadXpath) ==
    IF ~StartsWith(aciValue, LiteralURAR) THEN Null
    ELSE IF aciValue = LiteralTrue \/ aciValue = LiteralFalse
    THEN Block(<<<<"UAD_Xpath", escapeXml(uadXpath)>>>>)
    ELSE UrarBlock(aciValue, uadXpath)

\* createCommonBlock of reverser-app.js: the true/false rule, then the URAR
\* rule, then the five-element block.
createCommonBlock(aciValue, uadXpath) ==
    IF aciValue = LiteralTrue \/ aciValue = LiteralFalse
    THEN Block(<<<<"UAD_Xpath", escapeXml(uadXpath)>>>>)
    ELSE IF ~StartsWith(aciValue, LiteralURAR) THEN Null
    ELSE UrarBlock(aciValue, uadXpath)

\* One turn of the loop over the lines: what it does with the line.
Classify(line) ==
    LET parts == SplitSep(line, Separator)
    IN  IF Len(parts) = 2
        THEN LET aciValue == Trim(parts[1])
                 uadXpath == Trim(parts[2])
                 block == createCommonBlock(aciValue, uadXpath)
             IN  IF ~block.isNull
                 THEN [line |-> line, kind |-> "generated", block |-> block]
                 ELSE [line |-> line, kind |-> "skipped", block |-> block]
        ELSE [line |-> line, kind |-> "malformed", block |-> Null]

OfKind(turns, kind) == SelectSeq(turns, LAMBDA turn : turn.kind = kind)

\* The lines of the input file: the three kinds of value, a value that is
\* skipped, lines with no and with two separators, and a blank line.
ReverserLines ==
    {<<" ">> \o LiteralTrue \o Separator \o PathA,
     LiteralFalse \o Separator \o <<"<">> \o PathB,
     LiteralURAR \o <<"\\", "A", ".", "1">> \o Separator \o PathA,
     <<"v">> \o Separator \o PathA,
     PathC,
     <<"v">> \o Separator \o <<"w">> \o Separator \o PathC,
     <<" ">>}

ReverserFiles ==
    {<<>>} \cup {<<a>> : a \in ReverserLines}
    \cup {<<a, b>> : a \in ReverserLines, b \in ReverserLines}
    \cup {<<a, b, c>> : a \in ReverserLines, b \in ReverserLines, c \in ReverserLines}

InitReverser ==
    /\ GeneratorUnused
    /\ pc = "ready"
    /\ answers = Unused /\ filter = Unused /\ mapper = Unused
    /\ \E f \in ReverserFiles :
          reverser = [used |-> TRUE, fileContent |-> Join(f, <<"\n">>),
                      lines |-> <<>>, turns |-> <<>>, commonBlocks |-> <<>>,
                      skippedCount |-> 0, warned |-> <<>>]

\* main of reverser-app.js with the input file present (lines 85-108): the
\* non-blank lines, one turn of the loop for each, the blocks pushed, the
\* count of skipped lines and the lines warned about.
ReverserMain ==
    /\ pc = "ready"
    /\ reverser.used
    /\ LET lines == SelectSeq(Split(reverser.fileContent, "\n"),
                              LAMBDA line : Trim(line) # <<>>)
           turns == [i \in 1..Len(lines) |-> Classify(lines[i])]
           generated == OfKind(turns, "generated")
           malformed == OfKind(turns, "malformed")
       IN  reverser' = [reverser EXCEPT
                           !.lines = lines,
                           !.turns = turns,
                           !.commonBlocks =
                               [i \in 1..Len(generated) |-> generated[i].block],
                           !.skippedCount = Len(OfKind(turns, "skipped")),
                           !.warned =
                               [i \in 1..Len(malformed) |-> malformed[i].line]]
    /\ pc' = "success"
    /\ UNCHANGED <<generatorVars, answers, filter, mapper>>

NextReverser == ReverserMain

SpecReverser == InitReverser /\ [][NextReverser]_vars

\* The non-blank lines of a file, found by looking for a character that is
\* not white space.
NonBlankLines(fileContent) ==
    SelectSeq(Split(fileContent, "\n"),
              LAMBDA line : \E i \in 1..Len(line) : line[i] \notin WhiteSpace)

\* The value of a line: what stands before the first separator, trimmed.
ValueOf(line) ==
    LET places == SeparatorPlaces(line)
    IN  IF places = {} THEN <<>>
        ELSE TrimOf(SubSeq(line, 1,
                 (CHOOSE p \in places : \A q \in places : p <= q) - 1))

\* C29: every non-blank line has one turn of the loop, in order; the
\* generated, skipped and malformed lines add up to the non-blank lines; a
\* line is malformed exactly if it does not have one separator, skipped
\* exactly if its value is neither true nor false and does not start with
\* URAR; and a value of true or false gives a block with UAD_Xpath alone.
C29_LinesClassifiedOnce ==
    pc = "success" =>
        LET nonBlank == NonBlankLines(reverser.fileContent)
            turns == reverser.turns
        IN  /\ Len(turns) = Len(nonBlank)
            /\ Len(reverser.commonBlocks) + reverser.skippedCount
                   + Len(reverser.warned) = Len(nonBlank)
            /\ \A i \in 1..Len(turns) :
                  /\ turns[i].line = nonBlank[i]
                  /\ turns[i].kind = "malformed"
                         <=> Cardinality(SeparatorPlaces(nonBlank[i])) # 1
                  /\ turns[i].kind = "skipped"
                         <=> /\ Cardinality(SeparatorPlaces(nonBlank[i])) = 1
                             /\ ValueOf(nonBlank[i]) \notin {LiteralTrue, LiteralFalse}
                             /\ ~StartsWith(ValueOf(nonBlank[i]), LiteralURAR)
                  /\ (/\ Cardinality(SeparatorPlaces(nonBlank[i])) = 1
                      /\ ValueOf(nonBlank[i]) \in {LiteralTrue, LiteralFalse})
                         => /\ turns[i].kind = "generated"
                            /\ Len(turns[i].block.fields) = 1
                            /\ turns[i].block.fields[1][1] = "UAD_Xpath"
            /\ \A k \in 1..Len(reverser.commonBlocks) :
                  \E i \in 1..Len(turns) :
                      turns[i].kind = "generated"
                      /\ turns[i].block = reverser.commonBlocks[k]

\* A file of three lines: a value of true, a skipped value and a malformed
\* line; one block with UAD_Xpath alone was generated.
C29_Witness ==
    /\ pc = "success"
    /\ Len(reverser.turns) = 3
    /\ Len(reverser.commonBlocks) = 1
    /\ reverser.skippedCount = 1
    /\ Len(reverser.warned) = 1
    /\ Len(reverser.commonBlocks[1].fields) = 1

----------------------------------------------------------------------------
(* extractXPathInfo of image-mapperv2.js (claim C30).                      *)

TextPROPERTY ==
    <<"P", "R", "O", "P", "E", "R", "T", "Y">>

TextValuationUseType ==
    <<"V", "a", "l", "u", "a", "t", "i", "o", "n", "U", "s", "e", "T",
      "y", "p", "e", "=", "\"">>

TextIMAGE ==
    <<"I", "M", "A", "G", "E">>

TextImageFileLocationIdentifier ==
    <<"I", "m", "a", "g", "e", "F", "i", "l", "e", "L", "o", "c", "a",
      "t", "i", "o", "n", "I", "d", "e", "n", "t", "i", "f", "i", "e",
      "r">>

DigitChars == {"0", "1", "2", "3", "4", "5", "6", "7", "8", "9"}

\* parseInt of a run of digits.
RECURSIVE parseInt(_)
parseInt(s) ==
    IF s = <<>> THEN 0
    ELSE 10 * parseInt(SubSeq(s, 1, Len(s) - 1))
         + (CHOOSE d \in 0..9 : Digits[d + 1] = s[Len(s)])

\* /PROPERTY$$@ValuationUseType="([^"]+)"$$(?:$$(\d+)$$)?/ : each $ is an
\* assertion of the end of the input.
PositionPattern ==
    Literal(TextPROPERTY) \o <<EndOfInput, EndOfInput, Chr("@")>>
    \o Literal(TextValuationUseType)
    \o <<OneOrMore(TRUE, {"\""}, 1), Chr("\""), EndOfInput, EndOfInput,
         Optional(<<EndOfInput, EndOfInput, OneOrMore(FALSE, DigitChars, 2),
                    EndOfInput, EndOfInput>>)>>

\* /IMAGE$$(\d+)$$/
ImagePattern ==
    Literal(TextIMAGE)
    \o <<EndOfInput, EndOfInput, OneOrMore(FALSE, DigitChars, 1),
         EndOfInput, EndOfInput>>

\* /ValuationUseType="([^"]+)"/
FlexiblePattern ==
    Literal(TextValuationUseType) \o <<OneOrMore(TRUE, {"\""}, 1), Chr("\"")>>

\* /PROPERTY$$@ValuationUseType="[^"]+"$$$$(\d+)$$/
PosPattern ==
    Literal(TextPROPERTY) \o <<EndOfInput, EndOfInput, Chr("@")>>
    \o Literal(TextValuationUseType)
    \o <<OneOrMore(TRUE, {"\""}, 0), Chr("\""), EndOfInput, EndOfInput,
         EndOfInput, EndOfInput, OneOrMore(FALSE, DigitChars, 1),
         EndOfInput, EndOfInput>>

NoInfo == [isNull |-> TRUE, valuationType |-> <<>>, propertyPosition |-> 0, imagePosition |-> 0]

XPathInfo(valuationType, propertyPosition, imagePosition) ==
    [isNull |-> FALSE, valuationType |-> valuationType,
     propertyPosition |-> propertyPosition, imagePosition |-> imagePosition]

\* extractXPathInfo: the position pattern, and if it fails the flexible
\* pattern with the two position patterns after it.
extractXPathInfo(xpath) ==
    LET valuationMatch == Match(xpath, PositionPattern)
        imageMatch == Match(xpath, ImagePattern)
        imagePosition ==
            IF imageMatch.found THEN parseInt(imageMatch.caps[1].text) ELSE 1
        flexibleMatch == Match(xpath, FlexiblePattern)
        posMatch == Match(xpath, PosPattern)
    IN  IF valuationMatch.found
        THEN XPathInfo(valuationMatch.caps[1].text,
                       IF valuationMatch.caps[2].matched
                          /\ valuationMatch.caps[2].text # <<>>
                       THEN parseInt(valuationMatch.caps[2].text) ELSE 1,
                       imagePosition)
        ELSE IF flexibleMatch.found
        THEN XPathInfo(flexibleMatch.caps[1].text,
                       IF posMatch.found
                       THEN parseInt(posMatch.caps[1].text) ELSE 1,
                       imagePosition)
        ELSE NoInfo

\* The paths of the mapping file: a PROPERTY segment with its
\* ValuationUseType predicate and an optional index, an IMAGE segment with
\* an optional index, and the ImageFileLocationIdentifier leaf.  Index 0
\* stands for no index.
ValuationTypes == {<<"S">>, <<"C">>, <<"S", "C">>}

Positions == {0, 1, 2, 3, 12}

IndexText(n) == IF n = 0 THEN <<>> ELSE <<"[">> \o IntToStr(n) \o <<"]">>

ImagePath(t, m, n) ==
    <<"/", "R", "/">> \o TextPROPERTY \o <<"[", "@">> \o TextValuationUseType
    \o t \o <<"\"", "]">> \o IndexText(m) \o <<"/">> \o TextIMAGE
    \o IndexText(n) \o <<"/">> \o TextImageFileLocationIdentifier

InitMapper ==
    /\ GeneratorUnused
    /\ pc = "ready"
    /\ answers = Unused /\ reverser = Unused /\ filter = Unused
    /\ \E t \in ValuationTypes, m \in Positions, n \in Positions :
          mapper = [used |-> TRUE, valuationType |-> t, property |-> m,
                    image |-> n, xpath |-> ImagePath(t, m, n),
                    xpathInfo |-> NoInfo]

\* const xpathInfo = this.extractXPathInfo(fullXpath), as parseMappingFile
\* calls it for a line of the mapping file.
ExtractXPathInfo ==
    /\ pc = "ready"
    /\ mapper.used
    /\ mapper' = [mapper EXCEPT !.xpathInfo = extractXPathInfo(mapper.xpath)]
    /\ pc' = "done"
    /\ UNCHANGED <<generatorVars, answers, reverser, filter>>

NextMapper == ExtractXPathInfo

SpecMapper == InitMapper /\ [][NextMapper]_vars

\* C30: for a path with PROPERTY[@ValuationUseType="T"][M] and IMAGE[N]
\* the result has valuationType T, propertyPosition M and imagePosition N,
\* the positions being 1 when the index is absent.
C30_PositionsExtracted ==
    (pc = "done" /\ mapper.used) =>
        /\ ~mapper.xpathInfo.isNull
        /\ mapper.xpathInfo.valuationType = mapper.valuationType
        /\ mapper.xpathInfo.propertyPosition =
               (IF mapper.property = 0 THEN 1 ELSE mapper.property)
        /\ mapper.xpathInfo.imagePosition =
               (IF mapper.image = 0 THEN 1 ELSE mapper.image)

====
